---- MODULE Spec2Model ----
(***************************************************************************)
(* Model of src/src/bloom_filter.py: optimal_params, BloomFilterClassic    *)
(* and BloomFilterDoubleHash.                                              *)
(*                                                                         *)
(* Numbers.  The target rate p is a float in the code; here it is an       *)
(* integer number of thousandths (900 is 0.9).  Logarithms are fixed-point *)
(* numbers with eight decimals (the value times 10^8, truncated).  A hash  *)
(* value is an unsigned 32-bit integer, written as a pair <<hi, lo>> of    *)
(* 16-bit halves, because the model checker's integers are 32-bit signed.  *)
(***************************************************************************)
EXTENDS Integers, Sequences, FiniteSets, TLC

VARIABLES pc, kind, args, params, bits, hash, added, last, seen, repeated, calc

vars == <<pc, kind, args, params, bits, hash, added, last, seen, repeated, calc>>

(***************************************************************************)
(* Bounds of the model.                                                    *)
(***************************************************************************)
\* the filters of the model are built for 1..MaxN expected items
MaxN == 1

\* the strings handed to add and test
Items == {"IN_0", "OUT_0"}

\* the two filter classes
Kinds == {"classic", "double"}

\* n_expected values tried at construction (valid and invalid)
NValues == (-1 .. MaxN)

\* p_target values tried at construction, in thousandths: valid ones and
\* the invalid -0.5, 0, 1 and 1.5
PValid == {100, 500, 900}
PInvalid == {-500, 0, 1000, 1500}
PValues == PValid \cup PInvalid

\* inputs of the parameter computation checked on its own
CalcN == {0, 1, 2, 3, 7, 100, 10000}
CalcPValid == {1, 10, 50, 100, 250, 500, 750, 900, 950, 990, 999}
CalcP == CalcPValid \cup {0, 1000}

(***************************************************************************)
(* Arithmetic.                                                             *)
(***************************************************************************)
\* 10^8, the scale of the fixed-point logarithms
Scale == 100000000

\* <<q, r>> with a * b = q * d + r and 0 <= r < d, for a, b >= 0 and d > 0,
\* computed without forming the product a * b
RECURSIVE MulDivRem(_, _, _)
MulDivRem(a, b, d) ==
    IF a = 0 THEN <<0, 0>>
    ELSE LET h == MulDivRem(a \div 2, b, d)
             t == 2 * h[2] + (a % 2) * b
         IN  <<2 * h[1] + (t \div d), t % d>>

\* math.log(2) * 10^8
Ln2 == 69314718

\* NegLn with math.log(1 - p) written for math.log(p)
NegLnOfComplement(p) ==
    CASE p = 999 -> 690775527
      [] p = 990 -> 460517018
      [] p = 950 -> 299573227
      [] p = 900 -> 230258509
      [] p = 750 -> 138629436
      [] p = 500 -> 69314718
      [] p = 250 -> 28768207
      [] p = 100 -> 10536051
      [] p = 50  -> 5129329
      [] p = 10  -> 1005033
      [] p = 1   -> 100050

\* -math.log(p) * 10^8 for p given in thousandths, 0 < p < 1000
NegLn(p) ==
    CASE p = 1   -> 690775527
      [] p = 10  -> 460517018
      [] p = 50  -> 299573227
      [] p = 100 -> 230258509
      [] p = 250 -> 138629436
      [] p = 500 -> 69314718
      [] p = 750 -> 28768207
      [] p = 900 -> 10536051
      [] p = 950 -> 5129329
      [] p = 990 -> 1005033
      [] p = 999 -> 100050

\* math.log(2) ** 2, times 10^8
Ln2Sq == MulDivRem(Ln2, Ln2, Scale)[1]

\* the quotient -(n * math.log(p)) / (math.log(2) ** 2) as <<integer part,
\* remainder>>; the remainder is zero only when the quotient is an integer
BitQuotient(n, p) == MulDivRem(n, NegLn(p), Ln2Sq)

\* a raised exception, and a returned value
Raise(e) == [err |-> e, m |-> 0, k |-> 0]
Return(mm, kk) == [err |-> "none", m |-> mm, k |-> kk]

Max(a, b) == IF a >= b THEN a ELSE b

\* OptimalParams with the first check written n < 0
OptimalParamsLaxN(n, p) ==
    IF n < 0 THEN Raise("ValueError")
    ELSE IF ~(0 < p /\ p < 1000) THEN Raise("ValueError")
    ELSE LET m == BitQuotient(n, p)[1]
             k == Max(1, MulDivRem(m, Ln2, n)[1] \div Scale)
         IN  Return(m, k)

\* optimal_params(n, p): ValueError for n <= 0 or p outside (0,1), else
\* m = int(-(n*ln p) / (ln 2)^2) and k = max(1, int((m/n) * ln 2))
OptimalParams(n, p) ==
    IF n <= 0 THEN Raise("ValueError")
    ELSE IF ~(0 < p /\ p < 1000) THEN Raise("ValueError")
    ELSE LET m == BitQuotient(n, p)[1]
             k == Max(1, MulDivRem(m, Ln2, n)[1] \div Scale)
         IN  Return(m, k)

(***************************************************************************)
(* Hashing.  mmh3.hash(item, seed, signed=False) is a deterministic        *)
(* function to unsigned 32-bit integers; the variable hash holds it, and   *)
(* Init lets it be any function to HashVals.                               *)
(***************************************************************************)
\* 2^16, the base of the two halves of a hash value
Half == 65536

\* hash values tried: 0, 1 and 2^32 - 1
HashVals == {<<0, 0>>, <<0, 1>>, <<65535, 65535>>}

RECURSIVE SetMax(_)
SetMax(S) ==
    IF S = {} THEN 0
    ELSE LET x == CHOOSE y \in S : TRUE IN Max(x, SetMax(S \ {x}))

\* the largest k of any filter of the model; the seeds 0 and 1 are always
\* needed by the double-hash filter
MaxHashCount ==
    Max(2, SetMax({OptimalParams(n, p).k : n \in 1 .. MaxN, p \in PValid}))

Seeds == 0 .. (MaxHashCount - 1)

\* carry the low half into the high half
WNorm(hi, lo) == <<hi + (lo \div Half), lo % Half>>

\* h1 + i * h2 on <<hi, lo>> pairs, exact
WAddMul(h1, i, h2) == WNorm(h1[1] + i * h2[1], h1[2] + i * h2[2])

\* (a * b) % d for a, b >= 0 and d > 0, without forming the product
RECURSIVE MulMod(_, _, _)
MulMod(a, b, d) ==
    IF a = 0 THEN 0
    ELSE (2 * MulMod(a \div 2, b, d) + (a % 2) * b) % d

\* w % m for m > 0, w = hi * 2^16 + lo
WMod(w, m) == (MulMod(w[1], Half, m) + w[2]) % m

\* 0x9E3779B1
OddConstant == <<40503, 31153>>

\* H1H2 without the substitution for h2 = 0
H1H2NoGuard(x) == <<hash[x, 0], hash[x, 1]>>

\* BloomFilterDoubleHash._h1_h2
H1H2(x) ==
    LET h1 == hash[x, 0]
        h2 == hash[x, 1]
    IN  IF h2 = <<0, 0>> THEN <<h1, OddConstant>> ELSE <<h1, h2>>

\* BloomFilterClassic._indexes: the indices yielded, and the exception that
\* ends the generator if there is one
IndexesClassic(x) ==
    LET m == params.m
        k == params.k
    IN  IF k > 0 /\ m = 0
        THEN [err |-> "ZeroDivisionError", idx |-> <<>>]
        ELSE [err |-> "none",
              idx |-> [i \in 1 .. k |-> WMod(hash[x, i - 1], m)]]

\* BloomFilterDoubleHash._indexes
IndexesDouble(x) ==
    LET m == params.m
        k == params.k
        h == H1H2(x)
    IN  IF k > 0 /\ m = 0
        THEN [err |-> "ZeroDivisionError", idx |-> <<>>]
        ELSE [err |-> "none",
              idx |-> [i \in 1 .. k |-> WMod(WAddMul(h[1], i - 1, h[2]), m)]]

\* _indexes of the constructed filter
Indexes(x) == IF kind = "double" THEN IndexesDouble(x) ELSE IndexesClassic(x)

\* self.bits[idx] is defined for 0 <= idx < len(bits)
InRange(b, idx) == idx \in DOMAIN b

\* the loop of add over the yielded indices from position j on: the bits
\* afterwards and the exception raised, if any
RECURSIVE AddRun(_, _, _, _)
AddRun(b, g, j, generr) ==
    IF j > Len(g) THEN [bits |-> b, out |-> IF generr = "none" THEN "ok" ELSE generr]
    ELSE IF ~InRange(b, g[j]) THEN [bits |-> b, out |-> "IndexError"]
    ELSE AddRun([b EXCEPT ![g[j]] = 1], g, j + 1, generr)

\* all(self.bits[idx] for idx in g) from position j on
RECURSIVE ContainsRun(_, _, _, _)
ContainsRun(b, g, j, generr) ==
    IF j > Len(g) THEN (IF generr = "none" THEN "true" ELSE generr)
    ELSE IF ~InRange(b, g[j]) THEN "IndexError"
    ELSE IF b[g[j]] = 0 THEN "false"
    ELSE ContainsRun(b, g, j + 1, generr)

\* the outcome of `x in filter` in the current state
Contains(x) ==
    LET g == Indexes(x) IN ContainsRun(bits, g.idx, 1, g.err)

(***************************************************************************)
(* The filter as a state machine.  args, added, last, seen and repeated    *)
(* record the calls made: the constructor's arguments, the items add was   *)
(* called with, the last call and its outcome, the outcome of the latest   *)
(* test of each item since the last add, and whether some item was tested  *)
(* again since the last add.                                               *)
(***************************************************************************)
NoArgs == [n |-> 0, p |-> 0]
NoParams == [m |-> 0, k |-> 0]
NoBits == [i \in {} |-> 0]
NoCalc == [n |-> 0, p1 |-> 0, p2 |-> 0, r1 |-> Raise("pending"),
           r2 |-> Raise("pending"), done |-> 0]
Unknown == [x \in Items |-> "unknown"]

Init ==
    /\ pc = "new"
    /\ kind = "none"
    /\ args = NoArgs
    /\ params = NoParams
    /\ bits = NoBits
    /\ hash \in [Items \X Seeds -> HashVals]
    /\ added = {}
    /\ last = [op |-> "none", out |-> "none"]
    /\ seen = Unknown
    /\ repeated = FALSE
    /\ calc = NoCalc

\* BloomFilterClassic.__init__ / BloomFilterDoubleHash.__init__
Construct(kd, n, p) ==
    /\ pc = "new"
    /\ args' = [n |-> n, p |-> p]
    /\ LET r == OptimalParams(n, p)
       IN  IF r.err # "none"
           THEN /\ pc' = "failed"
                /\ last' = [op |-> "init", out |-> r.err]
                /\ UNCHANGED <<kind, params, bits>>
           ELSE /\ pc' = "ready"
                /\ kind' = kd
                /\ params' = [m |-> r.m, k |-> r.k]
                /\ bits' = [i \in 0 .. (r.m - 1) |-> 0]
                /\ last' = [op |-> "init", out |-> "ok"]
    /\ UNCHANGED <<hash, added, seen, repeated, calc>>

\* add(item)
Add(x) ==
    /\ pc = "ready"
    /\ LET g == Indexes(x)
           r == AddRun(bits, g.idx, 1, g.err)
       IN  /\ bits' = r.bits
           /\ last' = [op |-> "add", out |-> r.out]
    /\ added' = added \cup {x}
    /\ seen' = Unknown
    /\ repeated' = FALSE
    /\ UNCHANGED <<pc, kind, args, params, hash, calc>>

\* Test that also sets the bits it reads
TestSetsBits(x) ==
    /\ pc = "ready"
    /\ LET g == Indexes(x)
           out == Contains(x)
       IN  /\ last' = [op |-> "test", out |-> out]
           /\ seen' = [seen EXCEPT ![x] = out]
           /\ bits' = AddRun(bits, g.idx, 1, g.err).bits
    /\ repeated' = (repeated \/ seen[x] # "unknown")
    /\ UNCHANGED <<pc, kind, args, params, hash, added, calc>>

\* item in filter
Test(x) ==
    /\ pc = "ready"
    /\ LET out == Contains(x)
       IN  /\ last' = [op |-> "test", out |-> out]
           /\ seen' = [seen EXCEPT ![x] = out]
    /\ repeated' = (repeated \/ seen[x] # "unknown")
    /\ UNCHANGED <<pc, kind, args, params, bits, hash, added, calc>>

Next ==
    \/ \E kd \in Kinds, n \in NValues, p \in PValues : Construct(kd, n, p)
    \/ \E x \in Items : Add(x)
    \/ \E x \in Items : Test(x)

Spec == Init /\ [][Next]_vars

(***************************************************************************)
(* The parameter computation on its own.                                   *)
(***************************************************************************)
CalcInit ==
    /\ pc = "calc"
    /\ kind = "none"
    /\ args = NoArgs
    /\ params = NoParams
    /\ bits = NoBits
    /\ hash = [a \in Items \X Seeds |-> <<0, 0>>]
    /\ added = {}
    /\ last = [op |-> "none", out |-> "none"]
    /\ seen = Unknown
    /\ repeated = FALSE
    /\ calc \in {[n |-> n, p1 |-> p1, p2 |-> p2, r1 |-> Raise("pending"),
                  r2 |-> Raise("pending"), done |-> 0] :
                    n \in CalcN, p1 \in CalcP, p2 \in CalcP}

\* optimal_params(n, p1)
CalcFirst ==
    /\ calc.done = 0
    /\ calc' = [calc EXCEPT !.r1 = OptimalParams(calc.n, calc.p1), !.done = 1]
    /\ UNCHANGED <<pc, kind, args, params, bits, hash, added, last, seen, repeated>>

\* optimal_params(n, p2)
CalcSecond ==
    /\ calc.done = 1
    /\ calc' = [calc EXCEPT !.r2 = OptimalParams(calc.n, calc.p2), !.done = 2]
    /\ UNCHANGED <<pc, kind, args, params, bits, hash, added, last, seen, repeated>>

CalcNext == CalcFirst \/ CalcSecond

SpecParams == CalcInit /\ [][CalcNext]_vars

(***************************************************************************)
(* Properties of the filter (checked under Spec).                          *)
(***************************************************************************)
Constructed == pc = "ready"

\* the set of indices _indexes yields for x
IndexSet(x) == LET g == Indexes(x) IN {g.idx[j] : j \in 1 .. Len(g.idx)}

\* C1: no false negatives: once add(x) has been called on a constructed
\* filter, x in filter returns True, also after later adds of other items.
NoFalseNegatives ==
    Constructed => \A x \in added : Contains(x) = "true"

\* C2: once construction has succeeded, no add and no test raises.
AddTestNeverRaise ==
    (Constructed /\ last.op \in {"add", "test"})
        => last.out \in {"ok", "true", "false"}

\* C3: a constructed filter has m >= 1, k >= 1 and a bit store of at least
\* one cell.
ParamsAtLeastOne ==
    Constructed =>
        /\ params.m >= 1
        /\ params.k >= 1
        /\ Cardinality(DOMAIN bits) >= 1

\* C4: a constructed filter on which add was never called returns False
\* from test for every item.
EmptyFilterRejects ==
    (Constructed /\ added = {}) => \A x \in Items : Contains(x) = "false"

\* the arguments for which optimal_params must raise ValueError
InvalidArgs(a) == a.n <= 0 \/ ~(0 < a.p /\ a.p < 1000)

\* C5: construction raises ValueError exactly when n <= 0 or p is not
\* strictly between 0 and 1; then no parameters and no bit store exist;
\* for every other input construction succeeds without ValueError.
ValueErrorIffInvalid ==
    (pc \in {"ready", "failed"}) =>
        /\ (pc = "failed") <=> InvalidArgs(args)
        /\ (pc = "failed") =>
              /\ last = [op |-> "init", out |-> "ValueError"]
              /\ params = NoParams
              /\ bits = NoBits
              /\ kind = "none"
        /\ (pc = "ready") => last.out # "ValueError"

\* C5 witness: construction with p exactly 1 and a valid n has raised
\* ValueError.
ValueErrorAtPOne ==
    pc = "failed" /\ args.p = 1000 /\ args.n >= 1 /\ last.out = "ValueError"

\* C7: for every item, _indexes of a constructed filter yields exactly k
\* indices without raising, each in [0, m).
IndexesInRange ==
    Constructed =>
        \A x \in Items :
            LET g == Indexes(x)
            IN  /\ g.err = "none"
                /\ Len(g.idx) = params.k
                /\ \A j \in 1 .. Len(g.idx) : g.idx[j] \in 0 .. (params.m - 1)

\* the case of C8: a double-hash filter and an item whose second hash is 0
ZeroH2(x) == Constructed /\ kind = "double" /\ hash[x, 1] = <<0, 0>>

\* C8: for an item whose h2 is zero, h2 is replaced by 0x9E3779B1, and
\* the indices take at least two distinct values when k >= 2, m >= 2 and m
\* does not divide the constant.
DegeneracyGuard ==
    \A x \in Items :
        ZeroH2(x) =>
            /\ H1H2(x)[2] = OddConstant
            /\ (params.k >= 2 /\ params.m >= 2 /\ WMod(OddConstant, params.m) # 0)
                  => Cardinality(IndexSet(x)) >= 2

\* C8 witness: such an item has been added to a double-hash filter with
\* k >= 2 and m >= 2.
ZeroH2ItemAdded ==
    \E x \in added :
        /\ ZeroH2(x)
        /\ params.k >= 2
        /\ params.m >= 2
        /\ last = [op |-> "add", out |-> "ok"]

\* a step that is a call of test
TestStep == \E x \in Items : Test(x)

\* C10: test changes neither the bits nor the parameters, and a test of an
\* item already tested since the last add returns what it returned before.
TestIsPure ==
    [][TestStep =>
          /\ bits' = bits
          /\ params' = params
          /\ \A x \in Items : seen[x] # "unknown" => seen'[x] = seen[x]]_vars

\* C10 witness: after an add, some item was tested again and both items
\* have been tested, one found and one not.
TestRepeated ==
    /\ Constructed
    /\ repeated
    /\ added # {}
    /\ last.op = "test"
    /\ \E x, y \in Items : seen[x] = "true" /\ seen[y] = "false"

(***************************************************************************)
(* Properties of the parameter computation (checked under SpecParams).     *)
(***************************************************************************)
\* ceil(-(n * ln p) / (ln 2)^2)
CeilBitCount(n, p) ==
    LET qr == BitQuotient(n, p) IN qr[1] + (IF qr[2] > 0 THEN 1 ELSE 0)

\* C6: for valid input m is the ceiling of -(n * ln p) / (ln 2)^2, and
\* optimal_params(10000, 0.01) is m = 95851, k = 6.
BitCountIsCeiling ==
    (calc.done >= 1 /\ calc.r1.err = "none") =>
        /\ calc.r1.m = CeilBitCount(calc.n, calc.p1)
        /\ (calc.n = 10000 /\ calc.p1 = 10)
              => (calc.r1.m = 95851 /\ calc.r1.k = 6)

\* both computations are done, both succeeded, and p1 > p2
TwoRates ==
    /\ calc.done = 2
    /\ calc.r1.err = "none"
    /\ calc.r2.err = "none"
    /\ calc.p1 > calc.p2

\* C9 as stated: for p1 > p2, m and k are both strictly larger for p2.
StrictlyIncreasing ==
    TwoRates => (calc.r2.m > calc.r1.m /\ calc.r2.k > calc.r1.k)

\* C9 amended: for p1 > p2, m and k for p2 are at least those for p1.
NonDecreasing ==
    TwoRates => (calc.r2.m >= calc.r1.m /\ calc.r2.k >= calc.r1.k)

\* C9 witness: two rates for which m and k both grow.
BothGrow ==
    TwoRates /\ calc.r2.m > calc.r1.m /\ calc.r2.k > calc.r1.k

====
